---- MODULE Spec2Model ----
(***************************************************************************)
(* Model of the agent orchestration engine (AgentOrchestrator.execute,     *)
(* detect_issues, diagnose_issues), the tool registry and the asyncio      *)
(* scheduling of one request's coroutines.                                 *)
(*                                                                         *)
(* Spec has one request in flight, SpecConc two on one orchestrator.      *)
(* The event loop is a FIFO queue `ready` of                               *)
(* scheduled task steps; a coroutine that awaits I/O leaves the queue and  *)
(* is appended again when its I/O has completed.  Optional values are      *)
(* sequences of length at most one: <<>> is None, <<v>> is v.              *)
(***************************************************************************)
EXTENDS Integers, Sequences, FiniteSets, TLC

\* ------------------------------------------------------------------ bounds

\* Longest issue list a phase-1 model answer carries.
MaxIssues == 2

\* ------------------------------------------------------- request (lines 6-15)

ISSUE_DETECTION == "issue_detection"
FULL_DIAGNOSIS == "full_diagnosis"
CUSTOM_QUERY == "custom_query"

AgentMode == {ISSUE_DETECTION, FULL_DIAGNOSIS, CUSTOM_QUERY}

Systems == {"risk_management", "pnl_system"}

\* Days are integers; a request carries a date or None.
RequestDays == {3}
ClockDays == {9}
Queries == {"why did volume drop yesterday"}

Opt(S) == {<<>>} \cup {<<v>> : v \in S}

\* pydantic checks the field types only: every combination of mode, date
\* and specific_query is a valid AgentRequest.
AgentRequest ==
    [mode : AgentMode, system : Systems,
     date : Opt(RequestDays), specific_query : Opt(Queries)]

\* ----------------------------------------------------- tool registry

ToolSpec(name, props) == [name |-> name, properties |-> props]

get_detection_tools_WithDiagnosis ==
    << ToolSpec("get_error_details", {"system", "date", "error_type"}),
       ToolSpec("compare_metrics", {"system", "metric_name", "date1", "date2"}),
       ToolSpec("check_database_consistency", {"table", "date"}) >>

get_detection_tools ==
    << ToolSpec("get_error_details", {"system", "date", "error_type"}),
       ToolSpec("compare_metrics", {"system", "metric_name", "date1", "date2"}) >>

get_diagnosis_tools ==
    << ToolSpec("check_database_consistency", {"table", "date"}),
       ToolSpec("fetch_upstream_data", {"source_system", "date"}) >>

ToolNames(catalog) == {catalog[i].name : i \in DOMAIN catalog}

\* ----------------------------------------------------- detect_issues helpers

Today_AlwaysNow(req, clk) == clk

\* today = request.date or datetime.now(); a datetime is always truthy, so
\* `or` takes the clock exactly when the date is None.
Today(req, clk) == IF req.date = <<>> THEN clk ELSE req.date[1]

Yesterday(req, clk) == Today(req, clk) - 1

Call(op, system, day) == [op |-> op, system |-> system, date |-> day]

\* The list `tasks` of detect_issues, in the order it is written.
Tasks(req, clk) ==
    << Call("get_log_summary", req.system, Today(req, clk)),
       Call("get_log_summary", req.system, Yesterday(req, clk)),
       Call("get_metrics", req.system, Today(req, clk)),
       Call("get_metrics", req.system, Yesterday(req, clk)) >>

FetchIds == 1..4

IssuedAt_Sequential(k) == IF k < 4 THEN <<k + 1>> ELSE <<>>

\* The fetches handed to the event loop once k of them have finished:
\* asyncio.gather(*tasks) wraps all four coroutines in tasks at the call,
\* and none is issued later.
IssuedAt(k) == IF k = 0 THEN <<1, 2, 3, 4>> ELSE <<>>

\* A data-layer answer stands for the evidence of the call that produced it.
Snapshot(call) == [of |-> call]

GatherFinished_OnFirst(n) == n >= 1

\* gather's outer future gets its result when every child has finished.
GatherFinished(n) == n = 4

GatherRaises_ReturnExceptions(outcome) == FALSE

\* gather (return_exceptions=False) hands the first child exception to
\* the awaiting coroutine.
GatherRaises(outcome) == outcome = "fail"

\* ------------------------------------------------ model transport (interface)

IssueCategories == {"data_volume_mismatch", "upstream_discrepancy", "unmapped_category"}

Issue(c) == [category |-> c]

IssueLists ==
    UNION {[1..n -> {Issue(c) : c \in IssueCategories}] : n \in 0..MaxIssues}

\* What llm_client.analyze can return for the detection prompt: a structured
\* answer listing the issues found, or a payload that does not parse.
DetectionOutputs ==
    {[kind |-> "structured", issues |-> l] : l \in IssueLists}
        \cup {[kind |-> "malformed", issues |-> <<>>]}

Confidence == {"high", "low"}

DiagnosisOutputs ==
    {[kind |-> "structured", root_cause |-> "root cause text", confidence |-> c] :
        c \in Confidence}
        \cup {[kind |-> "malformed", root_cause |-> "unparsable text",
               confidence |-> "none"]}

CustomOutputs == {[kind |-> "text", text |-> "answer text"]}

ModelErrors == {"ModelUnavailable", "ModelTimeout"}

\* ------------------------------------------- prompt builder and interpreter

_build_detection_prompt(log_today, log_yesterday, metrics_today, metrics_yesterday) ==
    [prompt |-> "detection",
     log_today |-> log_today, log_yesterday |-> log_yesterday,
     metrics_today |-> metrics_today, metrics_yesterday |-> metrics_yesterday]

_parse_detection_response(out) ==
    IF out.kind = "structured"
    THEN [has_issues |-> out.issues # <<>>, issues |-> out.issues,
          raw_model_output |-> <<"detection", out.kind>>]
    ELSE [has_issues |-> FALSE, issues |-> <<>>,
          raw_model_output |-> <<"detection", out.kind>>]

_build_diagnosis_prompt(found, data) ==
    [prompt |-> "diagnosis", issues |-> found, diagnostic_data |-> data]

_parse_diagnosis_response(out, data) ==
    IF out.kind = "structured"
    THEN [root_cause |-> out.root_cause, confidence |-> out.confidence,
          supporting_evidence |-> data,
          raw_model_output |-> <<"diagnosis", out.kind>>]
    ELSE [root_cause |-> out.root_cause, confidence |-> "unknown",
          supporting_evidence |-> <<>>,
          raw_model_output |-> <<"diagnosis", out.kind>>]

\* ------------------------------------------------------ diagnostic planner

Directive(op, system) == [op |-> op, system |-> system]

DirectivesFor(category, system) ==
    CASE category = "data_volume_mismatch" ->
            <<Directive("fetch_table_consistency", system)>>
      [] category = "upstream_discrepancy" ->
            <<Directive("fetch_upstream_data", system)>>
      [] OTHER -> <<>>

RECURSIVE PlanOf(_, _)
PlanOf(issueList, system) ==
    IF issueList = <<>> THEN <<>>
    ELSE DirectivesFor(Head(issueList).category, system)
            \o PlanOf(Tail(issueList), system)

_create_diagnostic_plan(found, system) == PlanOf(found.issues, system)

Placeholder(directive) == [of |-> directive, unavailable |-> TRUE]

Evidence(directive) == [of |-> directive, unavailable |-> FALSE]

\* ------------------------------------------------------------ result merge

Merge_DetectionWins(a, b) ==
    [k \in DOMAIN a \cup DOMAIN b |-> IF k \in DOMAIN a THEN a[k] ELSE b[k]]

\* {**a, **b}: the keys of both, b's value where both have the key.
Merge(a, b) ==
    [k \in DOMAIN a \cup DOMAIN b |-> IF k \in DOMAIN b THEN b[k] ELSE a[k]]

ShouldDiagnose_Inverted(req, found) == req.mode = FULL_DIAGNOSIS /\ ~found.has_issues

ShouldDiagnose_IgnoresHasIssues(req, found) == req.mode = FULL_DIAGNOSIS

ShouldDiagnose_AnyMode(req, found) == found.has_issues

\* execute enters diagnose_issues only on the FULL_DIAGNOSIS branch and only
\* when issues['has_issues'] is true.
ShouldDiagnose(req, found) == req.mode = FULL_DIAGNOSIS /\ found.has_issues

\* ------------------------------------------------------------------- state

VARIABLES
    request,          \* the AgentRequest given to execute
    clock,            \* datetime.now() at the call
    pc,               \* where the coroutine of execute stands
    ready,            \* the event loop's queue of scheduled task steps
    fetch,            \* the four phase-1 fetch tasks
    nfinished,        \* gather: children that have finished
    outer,            \* gather: the future execute awaits
    snapshots,        \* log_today, log_yesterday, metrics_today, metrics_yesterday
    llm,              \* the model call in flight, its answer once it has one
    llmCalls,         \* every model call made, in order
    issues,           \* detect_issues' return value
    diagnostic_plan,  \* the plan of diagnose_issues
    dtask,            \* the directive fetch tasks of the plan
    diagnostic_data,  \* the evidence handed to the diagnosis prompt
    result,           \* what execute returned
    diagnosis,        \* diagnose_issues' return value
    escaped,          \* the exception that left execute
    context_memory,   \* AgentOrchestrator.context_memory
    plannerCalls,     \* how often _create_diagnostic_plan was called
    fetchCalls,       \* how many phase-1 data-layer calls have started
    doneOrder,        \* the phase-1 fetches in the order they finished
    answers,          \* what the model answered this request, in order
    active,           \* which request the request-local variables belong to
    parked            \* the request-local state of the other request in flight

vars ==
    <<request, clock, pc, ready, fetch, nfinished, outer, snapshots, llm,
      llmCalls, issues, diagnostic_plan, dtask, diagnostic_data, diagnosis,
      result, escaped, context_memory, plannerCalls, fetchCalls, doneOrder,
      answers, active, parked>>

MAIN == <<"main", 0>>

FetchTask(i) == <<"fetch", i>>

DirectiveTask(k) == <<"directive", k>>

NewTask(call) == [call |-> call, status |-> "unscheduled", outcome |-> "none"]

ToTasks(ids) == [n \in DOMAIN ids |-> FetchTask(ids[n])]

Init ==
    /\ request \in AgentRequest
    /\ clock \in ClockDays
    /\ pc = "start"
    /\ ready = <<MAIN>>
    /\ fetch = <<>>
    /\ nfinished = 0
    /\ outer = "none"
    /\ snapshots = <<>>
    /\ llm = <<>>
    /\ llmCalls = <<>>
    /\ issues = <<>>
    /\ diagnostic_plan = <<>>
    /\ dtask = <<>>
    /\ diagnostic_data = <<>>
    /\ diagnosis = <<>>
    /\ result = <<>>
    /\ escaped = <<>>
    /\ context_memory = <<>>
    /\ plannerCalls = 0
    /\ fetchCalls = 0
    /\ doneOrder = <<>>
    /\ answers = <<>>
    /\ active = 1
    /\ parked = <<>>

\* ------------------------------------------------------------ shorthands

Running(task) == ready # <<>> /\ Head(ready) = task

Raise(kind) == [error_kind |-> kind]

ModelCall(phase, prompt, tools) ==
    [phase |-> phase, prompt |-> prompt, tools |-> tools, answer |-> <<>>]

Answered == llm # <<>> /\ llm[1].answer # <<>>

AnswerOf == llm[1].answer[1]

\* What the awaiting coroutine gets for a child of gather.
ResultOf(t) ==
    IF t.status = "done" /\ t.outcome = "ok" THEN Snapshot(t.call)
    ELSE [of |-> t.call, missing |-> t.status]

MarkScheduled(tasks, ids) ==
    [i \in DOMAIN tasks |->
        IF \E n \in DOMAIN ids : ids[n] = i
        THEN [tasks[i] EXCEPT !.status = "scheduled"] ELSE tasks[i]]

\* ------------------------------------------- execute -> detect_issues

ExecuteDetect_AnyMode ==
    /\ pc = "start" /\ Running(MAIN)
    /\ fetch' = MarkScheduled([i \in FetchIds |-> NewTask(Tasks(request, clock)[i])],
                              IssuedAt(0))
    /\ ready' = Tail(ready) \o ToTasks(IssuedAt(0))
    /\ outer' = "pending"
    /\ pc' = "await_gather"
    /\ UNCHANGED <<request, clock, nfinished, snapshots, llm, llmCalls,
                   issues, diagnostic_plan, dtask, diagnostic_data, diagnosis,
                   result, escaped, context_memory, parked, active, answers,
                   doneOrder, fetchCalls, plannerCalls>>

\* execute on the ISSUE_DETECTION or FULL_DIAGNOSIS branch, up to the
\* await of asyncio.gather in detect_issues.
ExecuteDetect ==
    /\ pc = "start" /\ Running(MAIN)
    /\ request.mode \in {ISSUE_DETECTION, FULL_DIAGNOSIS}
    /\ fetch' = MarkScheduled([i \in FetchIds |-> NewTask(Tasks(request, clock)[i])],
                              IssuedAt(0))
    /\ ready' = Tail(ready) \o ToTasks(IssuedAt(0))
    /\ outer' = "pending"
    /\ pc' = "await_gather"
    /\ UNCHANGED <<request, clock, nfinished, snapshots, llm, llmCalls,
                   issues, diagnostic_plan, dtask, diagnostic_data, diagnosis,
                   result, escaped, context_memory, parked, active, answers,
                   doneOrder, fetchCalls, plannerCalls>>

\* A fetch task's first step: the data-layer coroutine runs to its await
\* of the backend (parse_logs, db_client.execute).
FetchStart(i) ==
    /\ Running(FetchTask(i))
    /\ fetch[i].status = "scheduled"
    /\ fetch' = [fetch EXCEPT ![i].status = "waiting"]
    /\ ready' = Tail(ready)
    /\ fetchCalls' = fetchCalls + 1
    /\ UNCHANGED <<request, clock, pc, nfinished, outer, snapshots, llm,
                   llmCalls, issues, diagnostic_plan, dtask, diagnostic_data,
                   diagnosis, result, escaped, context_memory, parked, active,
                   answers, doneOrder, plannerCalls>>

\* The backend answers or fails; the loop schedules the task's next step.
FetchIoCompletes(i, outcome) ==
    /\ i \in DOMAIN fetch
    /\ fetch[i].status = "waiting"
    /\ fetch' = [fetch EXCEPT ![i].status = "woken", ![i].outcome = outcome]
    /\ ready' = Append(ready, FetchTask(i))
    /\ UNCHANGED <<request, clock, pc, nfinished, outer, snapshots, llm,
                   llmCalls, issues, diagnostic_plan, dtask, diagnostic_data,
                   diagnosis, result, escaped, context_memory, parked, active,
                   answers, doneOrder, fetchCalls, plannerCalls>>

\* The fetch coroutine returns or raises, and gather's callback counts it:
\* the first exception, or the last result, wakes the awaiting coroutine.
FetchResume(i) ==
    /\ Running(FetchTask(i))
    /\ fetch[i].status = "woken"
    /\ nfinished' = nfinished + 1
    /\ doneOrder' = Append(doneOrder, i)
    /\ LET wakes == outer = "pending"
                     /\ (GatherRaises(fetch[i].outcome) \/ GatherFinished(nfinished'))
           later == IssuedAt(nfinished')
       IN /\ fetch' = MarkScheduled([fetch EXCEPT ![i].status = "done"], later)
          /\ outer' = IF outer # "pending" THEN outer
                      ELSE IF GatherRaises(fetch[i].outcome) THEN "exception"
                      ELSE IF GatherFinished(nfinished') THEN "result"
                      ELSE outer
          /\ ready' = Tail(ready) \o ToTasks(later)
                        \o (IF wakes THEN <<MAIN>> ELSE <<>>)
    /\ UNCHANGED <<request, clock, pc, snapshots, llm, llmCalls, issues,
                   diagnostic_plan, dtask, diagnostic_data, diagnosis, result,
                   escaped, context_memory, parked, active, answers,
                   fetchCalls, plannerCalls>>

\* The await of gather raises: nothing in detect_issues or execute catches.
DetectGatherRaises ==
    /\ pc = "await_gather" /\ Running(MAIN)
    /\ outer = "exception"
    /\ pc' = "raised"
    /\ escaped' = <<Raise("EvidenceUnavailable")>>
    /\ ready' = Tail(ready)
    /\ UNCHANGED <<request, clock, fetch, nfinished, outer, snapshots, llm,
                   llmCalls, issues, diagnostic_plan, dtask, diagnostic_data,
                   diagnosis, result, context_memory, parked, active, answers,
                   doneOrder, fetchCalls, plannerCalls>>

GatherResults_CompletionOrder(tasks, order) ==
    [n \in DOMAIN order |-> ResultOf(tasks[order[n]])]

\* gather's result list follows the order of its arguments, whatever the
\* order in which the children finished.
GatherResults(tasks, order) == [i \in FetchIds |-> ResultOf(tasks[i])]

\* The await of gather returns the four results in the order of `tasks`;
\* the prompt is built and the model is called with the detection tools.
DetectGatherReturns ==
    /\ pc = "await_gather" /\ Running(MAIN)
    /\ outer = "result"
    /\ snapshots' = GatherResults(fetch, doneOrder)
    /\ LET analysis_prompt ==
               _build_detection_prompt(snapshots'[1], snapshots'[2],
                                       snapshots'[3], snapshots'[4])
           call == ModelCall("detecting", analysis_prompt, get_detection_tools)
       IN /\ llm' = <<call>>
          /\ llmCalls' = Append(llmCalls, call)
    /\ pc' = "await_detect_llm"
    /\ ready' = Tail(ready)
    /\ UNCHANGED <<request, clock, fetch, nfinished, outer, issues,
                   diagnostic_plan, dtask, diagnostic_data, diagnosis, result,
                   escaped, context_memory, parked, active, answers,
                   doneOrder, fetchCalls, plannerCalls>>

\* llm_client.analyze answers or fails; the loop schedules the caller.
ModelAnswers(answer) ==
    /\ llm # <<>> /\ llm[1].answer = <<>>
    /\ llm' = <<[llm[1] EXCEPT !.answer = <<answer>>]>>
    /\ ready' = Append(ready, MAIN)
    /\ answers' = Append(answers, answer)
    /\ UNCHANGED <<request, clock, pc, fetch, nfinished, outer, snapshots,
                   llmCalls, issues, diagnostic_plan, dtask, diagnostic_data,
                   diagnosis, result, escaped, context_memory, parked, active,
                   doneOrder, fetchCalls, plannerCalls>>

Ok(out) == [error |-> "none", out |-> out]

Failed(kind) == [error |-> kind, out |-> <<>>]

AnswersFor(phase) ==
    {Failed(e) : e \in ModelErrors}
      \cup {Ok(o) : o \in CASE phase = "detecting" -> DetectionOutputs
                            [] phase = "diagnosing" -> DiagnosisOutputs
                            [] OTHER -> CustomOutputs}

ModelCallRaises_Retries ==
    /\ pc \in {"await_detect_llm", "await_diagnosis_llm", "await_custom_llm"}
    /\ Running(MAIN) /\ Answered
    /\ AnswerOf.error # "none"
    /\ LET again == [llm[1] EXCEPT !.answer = <<>>]
           retry == Len(llmCalls) < 4
       IN /\ llm' = IF retry THEN <<again>> ELSE llm
          /\ llmCalls' = IF retry THEN Append(llmCalls, again) ELSE llmCalls
          /\ pc' = IF retry THEN pc ELSE "raised"
          /\ escaped' = IF retry THEN escaped ELSE <<Raise(AnswerOf.error)>>
    /\ ready' = Tail(ready)
    /\ UNCHANGED <<request, clock, fetch, nfinished, outer, snapshots, issues,
                   diagnostic_plan, dtask, diagnostic_data, diagnosis, result,
                   context_memory, parked, active, answers, doneOrder,
                   fetchCalls, plannerCalls>>

\* The await of llm_client.analyze raises, in whichever phase: nothing in
\* detect_issues, diagnose_issues or execute catches.
ModelCallRaises ==
    /\ pc \in {"await_detect_llm", "await_diagnosis_llm", "await_custom_llm"}
    /\ Running(MAIN) /\ Answered
    /\ AnswerOf.error # "none"
    /\ pc' = "raised"
    /\ escaped' = <<Raise(AnswerOf.error)>>
    /\ ready' = Tail(ready)
    /\ UNCHANGED <<request, clock, fetch, nfinished, outer, snapshots, llm,
                   llmCalls, issues, diagnostic_plan, dtask, diagnostic_data,
                   diagnosis, result, context_memory, parked, active, answers,
                   doneOrder, fetchCalls, plannerCalls>>

DetectReturns_Unparsed ==
    /\ pc = "await_detect_llm" /\ Running(MAIN) /\ Answered
    /\ AnswerOf.error = "none"
    /\ LET found == _parse_detection_response(AnswerOf.out)
       IN /\ ~ShouldDiagnose(request, found)
          /\ issues' = <<found>>
          /\ result' = <<AnswerOf.out>>
    /\ pc' = "returned"
    /\ ready' = Tail(ready)
    /\ UNCHANGED <<request, clock, fetch, nfinished, outer, snapshots, llm,
                   llmCalls, diagnostic_plan, dtask, diagnostic_data,
                   diagnosis, escaped, context_memory, parked, active,
                   answers, doneOrder, fetchCalls, plannerCalls>>

\* detect_issues returns and execute returns its result: the
\* ISSUE_DETECTION branch, or FULL_DIAGNOSIS with has_issues false.
DetectReturns ==
    /\ pc = "await_detect_llm" /\ Running(MAIN) /\ Answered
    /\ AnswerOf.error = "none"
    /\ LET found == _parse_detection_response(AnswerOf.out)
       IN /\ ~ShouldDiagnose(request, found)
          /\ issues' = <<found>>
          /\ result' = <<found>>
    /\ pc' = "returned"
    /\ ready' = Tail(ready)
    /\ UNCHANGED <<request, clock, fetch, nfinished, outer, snapshots, llm,
                   llmCalls, diagnostic_plan, dtask, diagnostic_data,
                   diagnosis, escaped, context_memory, parked, active,
                   answers, doneOrder, fetchCalls, plannerCalls>>

\* The model call of diagnose_issues: prompt from the issues and the
\* directives' evidence, with the diagnosis tools.
DiagnosisCall(found, data) ==
    ModelCall("diagnosing", _build_diagnosis_prompt(found, data), get_diagnosis_tools)

DiagnoseBegins_FetchesPerIssue ==
    /\ pc = "await_detect_llm" /\ Running(MAIN) /\ Answered
    /\ AnswerOf.error = "none"
    /\ LET found == _parse_detection_response(AnswerOf.out)
           plan == _create_diagnostic_plan(found, request.system)
           given == [k \in DOMAIN found.issues |->
                        Directive("fetch_table_consistency", request.system)]
       IN /\ ShouldDiagnose(request, found)
          /\ issues' = <<found>>
          /\ diagnostic_plan' = plan
          /\ dtask' = [k \in DOMAIN given |->
                          [NewTask(given[k]) EXCEPT !.status = "scheduled"]]
          /\ IF given = <<>>
             THEN /\ llm' = <<DiagnosisCall(found, <<>>)>>
                  /\ llmCalls' = Append(llmCalls, DiagnosisCall(found, <<>>))
                  /\ pc' = "await_diagnosis_llm"
                  /\ ready' = Tail(ready)
             ELSE /\ UNCHANGED <<llm, llmCalls>>
                  /\ pc' = "await_directives"
                  /\ ready' = Tail(ready) \o [k \in DOMAIN given |-> DirectiveTask(k)]
    /\ plannerCalls' = plannerCalls + 1
    /\ UNCHANGED <<request, clock, fetch, nfinished, outer, snapshots,
                   diagnostic_data, diagnosis, result, escaped,
                   context_memory, parked, active, answers, doneOrder,
                   fetchCalls>>

\* detect_issues returns with issues and execute enters diagnose_issues:
\* the plan is made and its directive fetches are issued (with an empty
\* plan there is nothing to wait for and the model is called at once).
DiagnoseBegins ==
    /\ pc = "await_detect_llm" /\ Running(MAIN) /\ Answered
    /\ AnswerOf.error = "none"
    /\ LET found == _parse_detection_response(AnswerOf.out)
           plan == _create_diagnostic_plan(found, request.system)
       IN /\ ShouldDiagnose(request, found)
          /\ issues' = <<found>>
          /\ diagnostic_plan' = plan
          /\ dtask' = [k \in DOMAIN plan |->
                          [NewTask(plan[k]) EXCEPT !.status = "scheduled"]]
          /\ IF plan = <<>>
             THEN /\ llm' = <<DiagnosisCall(found, <<>>)>>
                  /\ llmCalls' = Append(llmCalls, DiagnosisCall(found, <<>>))
                  /\ pc' = "await_diagnosis_llm"
                  /\ ready' = Tail(ready)
             ELSE /\ UNCHANGED <<llm, llmCalls>>
                  /\ pc' = "await_directives"
                  /\ ready' = Tail(ready) \o [k \in DOMAIN plan |-> DirectiveTask(k)]
    /\ plannerCalls' = plannerCalls + 1
    /\ UNCHANGED <<request, clock, fetch, nfinished, outer, snapshots,
                   diagnostic_data, diagnosis, result, escaped,
                   context_memory, parked, active, answers, doneOrder,
                   fetchCalls>>

DirectiveStart(k) ==
    /\ Running(DirectiveTask(k))
    /\ dtask[k].status = "scheduled"
    /\ dtask' = [dtask EXCEPT ![k].status = "waiting"]
    /\ ready' = Tail(ready)
    /\ UNCHANGED <<request, clock, pc, fetch, nfinished, outer, snapshots,
                   llm, llmCalls, issues, diagnostic_plan, diagnostic_data,
                   diagnosis, result, escaped, context_memory, parked, active,
                   answers, doneOrder, fetchCalls, plannerCalls>>

DirectiveIoCompletes(k, outcome) ==
    /\ k \in DOMAIN dtask
    /\ dtask[k].status = "waiting"
    /\ dtask' = [dtask EXCEPT ![k].status = "woken", ![k].outcome = outcome]
    /\ ready' = Append(ready, DirectiveTask(k))
    /\ UNCHANGED <<request, clock, pc, fetch, nfinished, outer, snapshots,
                   llm, llmCalls, issues, diagnostic_plan, diagnostic_data,
                   diagnosis, result, escaped, context_memory, parked, active,
                   answers, doneOrder, fetchCalls, plannerCalls>>

\* A directive fetch returns or fails; neither aborts the others, and the
\* last one to finish wakes diagnose_issues.
DirectiveResume(k) ==
    /\ Running(DirectiveTask(k))
    /\ dtask[k].status = "woken"
    /\ dtask' = [dtask EXCEPT ![k].status = "done"]
    /\ ready' = Tail(ready) \o
                  (IF \A j \in DOMAIN dtask : dtask'[j].status = "done"
                   THEN <<MAIN>> ELSE <<>>)
    /\ UNCHANGED <<request, clock, pc, fetch, nfinished, outer, snapshots,
                   llm, llmCalls, issues, diagnostic_plan, diagnostic_data,
                   diagnosis, result, escaped, context_memory, parked, active,
                   answers, doneOrder, fetchCalls, plannerCalls>>

\* What _execute_diagnostic_plan returns: one entry per directive, in plan
\* order, a placeholder where the fetch failed.
_execute_diagnostic_plan(tasks) ==
    [k \in DOMAIN tasks |->
        IF tasks[k].outcome = "ok" THEN Evidence(tasks[k].call)
        ELSE Placeholder(tasks[k].call)]

HasPlaceholder(data) == \E k \in DOMAIN data : data[k].unavailable

DiagnoseEvidenceGathered_AbortOnPlaceholder ==
    /\ pc = "await_directives" /\ Running(MAIN)
    /\ LET data == _execute_diagnostic_plan(dtask)
       IN /\ diagnostic_data' = data
          /\ IF HasPlaceholder(data)
             THEN /\ pc' = "raised"
                  /\ escaped' = <<Raise("EvidenceUnavailable")>>
                  /\ UNCHANGED <<llm, llmCalls>>
             ELSE /\ llm' = <<DiagnosisCall(issues[1], data)>>
                  /\ llmCalls' = Append(llmCalls, DiagnosisCall(issues[1], data))
                  /\ pc' = "await_diagnosis_llm"
                  /\ UNCHANGED escaped
    /\ ready' = Tail(ready)
    /\ UNCHANGED <<request, clock, fetch, nfinished, outer, snapshots, issues,
                   diagnostic_plan, dtask, diagnosis, result, context_memory,
                   parked, active, answers, doneOrder, fetchCalls,
                   plannerCalls>>

\* diagnose_issues after _execute_diagnostic_plan: whatever the evidence
\* holds, the diagnosis prompt is built from it and the model is called.
DiagnoseEvidenceGathered ==
    /\ pc = "await_directives" /\ Running(MAIN)
    /\ LET data == _execute_diagnostic_plan(dtask)
       IN /\ diagnostic_data' = data
          /\ llm' = <<DiagnosisCall(issues[1], data)>>
          /\ llmCalls' = Append(llmCalls, DiagnosisCall(issues[1], data))
    /\ pc' = "await_diagnosis_llm"
    /\ ready' = Tail(ready)
    /\ UNCHANGED <<request, clock, fetch, nfinished, outer, snapshots, issues,
                   diagnostic_plan, dtask, diagnosis, result, escaped,
                   context_memory, parked, active, answers, doneOrder,
                   fetchCalls, plannerCalls>>

DiagnoseReturns_ReusesContext ==
    /\ pc = "await_diagnosis_llm" /\ Running(MAIN) /\ Answered
    /\ AnswerOf.error = "none"
    /\ diagnosis' = <<_parse_diagnosis_response(AnswerOf.out, diagnostic_data)>>
    /\ context_memory' = IF context_memory = <<>> THEN issues ELSE context_memory
    /\ result' = <<Merge(context_memory'[1], diagnosis'[1])>>
    /\ pc' = "returned"
    /\ ready' = Tail(ready)
    /\ UNCHANGED <<request, clock, fetch, nfinished, outer, snapshots, llm,
                   llmCalls, issues, diagnostic_plan, dtask, diagnostic_data,
                   escaped, parked, active, answers, doneOrder, fetchCalls,
                   plannerCalls>>

\* diagnose_issues returns and execute returns {**issues, **diagnosis}.
DiagnoseReturns ==
    /\ pc = "await_diagnosis_llm" /\ Running(MAIN) /\ Answered
    /\ AnswerOf.error = "none"
    /\ diagnosis' = <<_parse_diagnosis_response(AnswerOf.out, diagnostic_data)>>
    /\ result' = <<Merge(issues[1], diagnosis'[1])>>
    /\ pc' = "returned"
    /\ ready' = Tail(ready)
    /\ UNCHANGED <<request, clock, fetch, nfinished, outer, snapshots, llm,
                   llmCalls, issues, diagnostic_plan, dtask, diagnostic_data,
                   escaped, context_memory, parked, active, answers,
                   doneOrder, fetchCalls, plannerCalls>>

\* --------------------------------------------- execute -> handle_custom_query

CustomQueryRejected ==
    /\ pc = "start" /\ Running(MAIN)
    /\ request.mode = CUSTOM_QUERY
    /\ request.specific_query = <<>>
    /\ pc' = "raised"
    /\ escaped' = <<Raise("InvalidRequest")>>
    /\ ready' = Tail(ready)
    /\ UNCHANGED <<request, clock, fetch, nfinished, outer, snapshots, llm,
                   llmCalls, issues, diagnostic_plan, dtask, diagnostic_data,
                   diagnosis, result, context_memory, parked, active, answers,
                   doneOrder, fetchCalls, plannerCalls>>

CustomQueryAsks ==
    /\ pc = "start" /\ Running(MAIN)
    /\ request.mode = CUSTOM_QUERY
    /\ request.specific_query # <<>>
    /\ LET call == ModelCall("custom",
                             [prompt |-> "custom", system |-> request.system,
                              query |-> request.specific_query[1]],
                             get_detection_tools \o get_diagnosis_tools)
       IN /\ llm' = <<call>>
          /\ llmCalls' = Append(llmCalls, call)
    /\ pc' = "await_custom_llm"
    /\ ready' = Tail(ready)
    /\ UNCHANGED <<request, clock, fetch, nfinished, outer, snapshots, issues,
                   diagnostic_plan, dtask, diagnostic_data, diagnosis, result,
                   escaped, context_memory, parked, active, answers,
                   doneOrder, fetchCalls, plannerCalls>>

CustomQueryReturns ==
    /\ pc = "await_custom_llm" /\ Running(MAIN) /\ Answered
    /\ AnswerOf.error = "none"
    /\ result' = <<[answer |-> AnswerOf.out.text]>>
    /\ pc' = "returned"
    /\ ready' = Tail(ready)
    /\ UNCHANGED <<request, clock, fetch, nfinished, outer, snapshots, llm,
                   llmCalls, issues, diagnostic_plan, dtask, diagnostic_data,
                   diagnosis, escaped, context_memory, parked, active,
                   answers, doneOrder, fetchCalls, plannerCalls>>

\* ------------------------------------------------------------ specification

Outcomes == {"ok", "fail"}

Next ==
    \/ ExecuteDetect
    \/ \E i \in FetchIds : FetchStart(i)
    \/ \E i \in FetchIds, o \in Outcomes : FetchIoCompletes(i, o)
    \/ \E i \in FetchIds : FetchResume(i)
    \/ DetectGatherRaises
    \/ DetectGatherReturns
    \/ \E a \in AnswersFor(IF llm = <<>> THEN "none" ELSE llm[1].phase) :
          ModelAnswers(a)
    \/ ModelCallRaises
    \/ DetectReturns
    \/ DiagnoseBegins
    \/ \E k \in DOMAIN dtask : DirectiveStart(k)
    \/ \E k \in DOMAIN dtask, o \in Outcomes : DirectiveIoCompletes(k, o)
    \/ \E k \in DOMAIN dtask : DirectiveResume(k)
    \/ DiagnoseEvidenceGathered
    \/ DiagnoseReturns
    \/ CustomQueryRejected
    \/ CustomQueryAsks
    \/ CustomQueryReturns

Spec == Init /\ [][Next]_vars

\* ------------------------------------------------- two requests in flight

\* The endpoints share one orchestrator (ApiUtils line 24), so a second
\* execute may start while the first is suspended.  The request-local
\* variables hold the request whose step is taken; the other request's are
\* parked.  The event loop may run the head of either request's queue:
\* every order in which one FIFO queue interleaves the two is among these.
Locals ==
    [request |-> request,
     clock |-> clock,
     pc |-> pc,
     ready |-> ready,
     fetch |-> fetch,
     nfinished |-> nfinished,
     outer |-> outer,
     snapshots |-> snapshots,
     llm |-> llm,
     llmCalls |-> llmCalls,
     issues |-> issues,
     diagnostic_plan |-> diagnostic_plan,
     dtask |-> dtask,
     diagnostic_data |-> diagnostic_data,
     diagnosis |-> diagnosis,
     result |-> result,
     escaped |-> escaped,
     plannerCalls |-> plannerCalls,
     fetchCalls |-> fetchCalls,
     doneOrder |-> doneOrder,
     answers |-> answers]

Switch ==
    /\ parked # <<>>
    /\ request' = parked[1].request
    /\ clock' = parked[1].clock
    /\ pc' = parked[1].pc
    /\ ready' = parked[1].ready
    /\ fetch' = parked[1].fetch
    /\ nfinished' = parked[1].nfinished
    /\ outer' = parked[1].outer
    /\ snapshots' = parked[1].snapshots
    /\ llm' = parked[1].llm
    /\ llmCalls' = parked[1].llmCalls
    /\ issues' = parked[1].issues
    /\ diagnostic_plan' = parked[1].diagnostic_plan
    /\ dtask' = parked[1].dtask
    /\ diagnostic_data' = parked[1].diagnostic_data
    /\ diagnosis' = parked[1].diagnosis
    /\ result' = parked[1].result
    /\ escaped' = parked[1].escaped
    /\ plannerCalls' = parked[1].plannerCalls
    /\ fetchCalls' = parked[1].fetchCalls
    /\ doneOrder' = parked[1].doneOrder
    /\ answers' = parked[1].answers
    /\ parked' = <<Locals>>
    /\ active' = 3 - active
    /\ UNCHANGED context_memory

\* Longest issue list of a phase-1 answer while two requests are in flight.
ConcMaxIssues == 1

InOrder(tasks) ==
    \A i, j \in DOMAIN tasks :
        (j < i /\ tasks[i].status \in {"woken", "done"})
            => tasks[j].status \in {"woken", "done"}

\* The environment of the two-request runs: the backends answer each
\* request's fetches in the order they were issued, and phase-1 answers
\* list at most ConcMaxIssues issues.
ConcEnvironment ==
    /\ InOrder(fetch)
    /\ InOrder(dtask)
    /\ \A n \in DOMAIN answers :
          (answers[n].error = "none" /\ "issues" \in DOMAIN answers[n].out)
              => Len(answers[n].out.issues) <= ConcMaxIssues

ConcRequests ==
    {r \in AgentRequest : r.system = "risk_management" /\ r.date = <<>>
                           /\ (r.specific_query # <<>> => r.mode = CUSTOM_QUERY)}

InitLocals(r, clk) ==
    [request |-> r, clock |-> clk, pc |-> "start", ready |-> <<MAIN>>,
     fetch |-> <<>>, nfinished |-> 0, outer |-> "none", snapshots |-> <<>>,
     llm |-> <<>>, llmCalls |-> <<>>, issues |-> <<>>, diagnostic_plan |-> <<>>,
     dtask |-> <<>>, diagnostic_data |-> <<>>, diagnosis |-> <<>>,
     result |-> <<>>, escaped |-> <<>>, plannerCalls |-> 0, fetchCalls |-> 0,
     doneOrder |-> <<>>, answers |-> <<>>]

InitConc ==
    /\ \E r \in {q \in ConcRequests : q.mode = FULL_DIAGNOSIS}, clk \in ClockDays :
          /\ request = InitLocals(r, clk).request
          /\ clock = InitLocals(r, clk).clock
          /\ pc = InitLocals(r, clk).pc
          /\ ready = InitLocals(r, clk).ready
          /\ fetch = InitLocals(r, clk).fetch
          /\ nfinished = InitLocals(r, clk).nfinished
          /\ outer = InitLocals(r, clk).outer
          /\ snapshots = InitLocals(r, clk).snapshots
          /\ llm = InitLocals(r, clk).llm
          /\ llmCalls = InitLocals(r, clk).llmCalls
          /\ issues = InitLocals(r, clk).issues
          /\ diagnostic_plan = InitLocals(r, clk).diagnostic_plan
          /\ dtask = InitLocals(r, clk).dtask
          /\ diagnostic_data = InitLocals(r, clk).diagnostic_data
          /\ diagnosis = InitLocals(r, clk).diagnosis
          /\ result = InitLocals(r, clk).result
          /\ escaped = InitLocals(r, clk).escaped
          /\ plannerCalls = InitLocals(r, clk).plannerCalls
          /\ fetchCalls = InitLocals(r, clk).fetchCalls
          /\ doneOrder = InitLocals(r, clk).doneOrder
          /\ answers = InitLocals(r, clk).answers
    /\ \E r \in ConcRequests, clk \in ClockDays : parked = <<InitLocals(r, clk)>>
    /\ active = 1
    /\ context_memory = <<>>

NextConc ==
    \/ Next /\ ConcEnvironment'
    \/ Switch

SpecConc == InitConc /\ [][NextConc]_vars

\* ------------------------------------------------------------ properties

Terminated == pc \in {"returned", "raised"}

CallsIn(phase) == {n \in DOMAIN llmCalls : llmCalls[n].phase = phase}

DiagnoseEntered ==
    \/ plannerCalls > 0
    \/ dtask # <<>>
    \/ diagnostic_data # <<>>
    \/ diagnosis # <<>>
    \/ CallsIn("diagnosing") # {}

DetectionKeys == {"has_issues", "issues", "raw_model_output"}

DiagnosisKeys == {"root_cause", "confidence", "supporting_evidence", "raw_model_output"}

\* C1: a FULL_DIAGNOSIS request whose detection found no issues returns the
\* detection result itself, with the detection keys only, and has made no
\* planner call, no directive fetch and no second model call.
C1_ShortCircuit ==
    (request.mode = FULL_DIAGNOSIS /\ issues # <<>> /\ ~issues[1].has_issues)
        => /\ ~DiagnoseEntered
           /\ Len(llmCalls) = 1
           /\ pc = "returned"
           /\ result = issues
           /\ DOMAIN result[1] = DetectionKeys

C1_Witness ==
    /\ request.mode = FULL_DIAGNOSIS
    /\ pc = "returned"
    /\ issues # <<>> /\ ~issues[1].has_issues

FetchDone(i) == i \in DOMAIN fetch /\ fetch[i].status = "done"

FetchFailed(i) == i \in DOMAIN fetch /\ fetch[i].outcome = "fail"

FetchStarted(i) ==
    i \in DOMAIN fetch /\ fetch[i].status \in {"waiting", "woken", "done"}

\* Phase 1 is complete: four snapshots fetched, the prompt built from them,
\* the model answered and the answer interpreted.
Phase1Complete ==
    /\ \A i \in FetchIds : FetchDone(i) /\ ~FetchFailed(i)
    /\ snapshots # <<>>
    /\ Cardinality(CallsIn("detecting")) = 1
    /\ issues # <<>>

Phase1State == <<fetch, nfinished, outer, snapshots, issues, CallsIn("detecting")>>

\* C2: whenever a step leaves the request in the Diagnose phase, phase 1 is
\* complete, and no step taken in the Diagnose phase changes anything of
\* phase 1 (its fetches, its prompt inputs, its model call, its result).
C2_PhaseOrder ==
    [][ /\ DiagnoseEntered' => Phase1Complete'
        /\ DiagnoseEntered => Phase1State' = Phase1State ]_vars

C2_Witness ==
    /\ pc = "await_directives"
    /\ \E k \in DOMAIN dtask : dtask[k].status = "waiting"
    /\ Phase1Complete

\* C3: an ISSUE_DETECTION request never enters the Diagnose phase, whatever
\* has_issues is, and what it returns is the detection result.
C3_DetectionOnly ==
    request.mode = ISSUE_DETECTION
        => /\ ~DiagnoseEntered
           /\ pc = "returned" => result = issues /\ issues # <<>>

C3_Witness ==
    /\ request.mode = ISSUE_DETECTION
    /\ pc = "returned"
    /\ issues[1].has_issues

FatalFailure ==
    \/ \E i \in FetchIds : FetchDone(i) /\ FetchFailed(i)
    \/ Answered /\ AnswerOf.error \in ModelErrors

ErrorRecordKeys == {"phase", "error_kind", "message"}

\* C4: after a failed phase-1 fetch or a failed model call, execute ends by
\* returning an error record with phase, error_kind and message; no
\* exception leaves execute.
C4_FailureReturnsErrorRecord ==
    (Terminated /\ FatalFailure)
        => /\ escaped = <<>>
           /\ result # <<>>
           /\ ErrorRecordKeys \subseteq DOMAIN result[1]

\* C5: the detection prompt is built only from four completed fetches, and
\* once a fetch has failed no prompt is built, no model call is made and
\* nothing is returned: the request waits for gather or has failed.
C5_AllFourOrFail ==
    /\ snapshots # <<>> => \A i \in FetchIds : FetchDone(i) /\ ~FetchFailed(i)
    /\ (\E i \in FetchIds : FetchFailed(i))
          => /\ snapshots = <<>>
             /\ llmCalls = <<>>
             /\ issues = <<>> /\ result = <<>>
             /\ pc \in {"await_gather", "raised"}

C5_Witness ==
    /\ pc = "raised"
    /\ FetchFailed(3) /\ FetchDone(3)
    /\ FetchDone(1) /\ ~FetchFailed(1)
    /\ llmCalls = <<>>

\* C6: while no fetch has failed, a fetch has completed only if all four
\* have started.
C6_AllStartBeforeFirstCompletion ==
    (~ \E i \in FetchIds : FetchFailed(i))
        => ((\E i \in FetchIds : FetchDone(i)) => \A j \in FetchIds : FetchStarted(j))

C6_Witness ==
    /\ FetchDone(2) /\ ~FetchFailed(2)
    /\ fetch[1].status = "waiting" /\ fetch[4].status = "waiting"

\* C7: every detection-phase model call carries exactly get_error_details
\* and compare_metrics, every diagnosis-phase call exactly
\* check_database_consistency and fetch_upstream_data, no tool is in both
\* catalogs, and two calls of one phase carry the same catalog.
C7_CatalogPerPhase ==
    /\ \A n \in CallsIn("detecting") :
          /\ Len(llmCalls[n].tools) = 2
          /\ ToolNames(llmCalls[n].tools) = {"get_error_details", "compare_metrics"}
    /\ \A n \in CallsIn("diagnosing") :
          /\ Len(llmCalls[n].tools) = 2
          /\ ToolNames(llmCalls[n].tools) =
                {"check_database_consistency", "fetch_upstream_data"}
    /\ \A m, n \in CallsIn("detecting") \cup CallsIn("diagnosing") :
          IF llmCalls[m].phase = llmCalls[n].phase
          THEN llmCalls[m].tools = llmCalls[n].tools
          ELSE ToolNames(llmCalls[m].tools) \cap ToolNames(llmCalls[n].tools) = {}

C7_Witness ==
    /\ Len(llmCalls) = 2
    /\ llmCalls[1].phase = "detecting"
    /\ llmCalls[2].phase = "diagnosing"

DirectiveFailed(k) == dtask[k].status = "done" /\ dtask[k].outcome = "fail"

ExactlyOneDirectiveFailed ==
    /\ \A k \in DOMAIN dtask : dtask[k].status = "done"
    /\ Cardinality({k \in DOMAIN dtask : DirectiveFailed(k)}) = 1

\* C8: when every directive fetch has finished and exactly one has failed,
\* the evidence holds a placeholder for that directive and the others'
\* evidence, the diagnosis model call is made with that evidence, no
\* EvidenceUnavailable leaves execute, and a request that returns returns
\* the merged result.
C8_DirectiveFailureDegrades ==
    (ExactlyOneDirectiveFailed /\ pc # "await_directives")
        => /\ diagnostic_data =
                 [k \in DOMAIN dtask |->
                     IF DirectiveFailed(k) THEN Placeholder(diagnostic_plan[k])
                     ELSE Evidence(diagnostic_plan[k])]
           /\ \E n \in CallsIn("diagnosing") :
                 llmCalls[n].prompt.diagnostic_data = diagnostic_data
           /\ pc \in {"await_diagnosis_llm", "returned", "raised"}
           /\ pc = "raised" => escaped[1].error_kind \in ModelErrors
           /\ pc = "returned" => DOMAIN result[1] = DetectionKeys \cup DiagnosisKeys

C8_Witness ==
    /\ pc = "returned"
    /\ Len(dtask) = 2
    /\ ExactlyOneDirectiveFailed
    /\ diagnostic_data[1].unavailable /\ ~diagnostic_data[2].unavailable
    /\ "root_cause" \in DOMAIN result[1]

Malformed(req) == (req.mode = CUSTOM_QUERY) # (req.specific_query # <<>>)

\* C9: a request whose query is present without CUSTOM_QUERY, or absent
\* with it, issues no fetch and no model call, and ends with InvalidRequest.
C9_MalformedRejectedFirst ==
    Malformed(request)
        => /\ fetch = <<>>
           /\ llmCalls = <<>>
           /\ Terminated => escaped = <<Raise("InvalidRequest")>>

\* C10: the result of a FULL_DIAGNOSIS request with issues has the keys of
\* the detection and the diagnosis result; a key of the diagnosis result
\* has the diagnosis value, any other key the detection value.
C10_MergeUnion ==
    (request.mode = FULL_DIAGNOSIS /\ pc = "returned"
        /\ issues # <<>> /\ issues[1].has_issues)
        => /\ DOMAIN result[1] = DOMAIN issues[1] \cup DOMAIN diagnosis[1]
           /\ \A k \in DOMAIN result[1] :
                 IF k \in DOMAIN diagnosis[1] THEN result[1][k] = diagnosis[1][k]
                 ELSE result[1][k] = issues[1][k]

C10_Witness ==
    /\ request.mode = FULL_DIAGNOSIS /\ pc = "returned"
    /\ issues # <<>> /\ issues[1].has_issues
    /\ issues[1].raw_model_output = <<"detection", "structured">>
    /\ result[1].raw_model_output = <<"diagnosis", "structured">>
    /\ result[1].issues = issues[1].issues

\* C11: for a FULL_DIAGNOSIS request whose detection found issues, the
\* planner has been called exactly once, the plan is the planner's plan for
\* those issues, and the directive fetches are the plan's directives, one
\* fetch per directive and in plan order, in every state from the first
\* fetch on.
C11_PlanOnceThenFetch ==
    /\ dtask # <<>> => plannerCalls = 1
    /\ (request.mode = FULL_DIAGNOSIS /\ issues # <<>> /\ issues[1].has_issues)
          => /\ plannerCalls = 1
             /\ diagnostic_plan = _create_diagnostic_plan(issues[1], request.system)
             /\ Len(dtask) = Len(diagnostic_plan)
             /\ \A k \in DOMAIN dtask : dtask[k].call = diagnostic_plan[k]

C11_Witness ==
    /\ request.mode = FULL_DIAGNOSIS
    /\ pc = "await_directives"
    /\ Len(issues[1].issues) = 2
    /\ Len(diagnostic_plan) = 1
    /\ dtask[1].status = "waiting"

MalformedDetection ==
    issues # <<>> /\ issues[1].raw_model_output = <<"detection", "malformed">>

\* C12: once an unparsable phase-1 answer has been interpreted, no exception
\* has left execute, the request has returned a detection record with
\* has_issues false and no issues, and the Diagnose phase is not entered.
C12_MalformedDetectionFailsSoft ==
    MalformedDetection
        => /\ pc = "returned"
           /\ escaped = <<>>
           /\ result = issues
           /\ DOMAIN result[1] = DetectionKeys
           /\ result[1].has_issues = FALSE
           /\ result[1].issues = <<>>
           /\ ~DiagnoseEntered

C12_Witness ==
    /\ request.mode = FULL_DIAGNOSIS
    /\ MalformedDetection
    /\ pc = "returned"

C15_CustomQuerySingleCall ==
    request.mode = CUSTOM_QUERY
        => /\ fetch = <<>> /\ fetchCalls = 0
           /\ issues = <<>> /\ ~DiagnoseEntered
           /\ Len(llmCalls) <= 1
           /\ \A n \in DOMAIN llmCalls : llmCalls[n].phase = "custom"
           /\ pc = "returned"
                => /\ Len(llmCalls) = 1
                   /\ result[1].answer = AnswerOf.out.text
                   /\ DOMAIN result[1] \cap (DetectionKeys \cup DiagnosisKeys) = {}

C15_Witness ==
    /\ request.mode = CUSTOM_QUERY
    /\ pc = "returned"
    /\ result[1].answer = "answer text"

\* C17: nothing is retried: at most four phase-1 fetches start, each once,
\* and exactly four have started once detect_issues is past gather; each
\* phase makes at most one model call, an ISSUE_DETECTION request at most
\* one and any request at most two, also after a call has failed.
C17_NoRetry ==
    /\ fetchCalls = Cardinality({i \in FetchIds : FetchStarted(i)})
    /\ (request.mode # CUSTOM_QUERY /\ pc \notin {"start", "await_gather"})
          => fetchCalls = 4
    /\ Cardinality(CallsIn("detecting")) <= 1
    /\ Cardinality(CallsIn("diagnosing")) <= 1
    /\ Len(llmCalls) <= 2
    /\ request.mode = ISSUE_DETECTION => Len(llmCalls) <= 1

C17_Witness ==
    /\ request.mode = FULL_DIAGNOSIS
    /\ pc = "raised"
    /\ escaped = <<Raise("ModelTimeout")>>
    /\ Len(llmCalls) = 2
    /\ fetchCalls = 4

\* C18: once execute has ended with the failure of a phase-1 fetch, no
\* phase-1 fetch of the request is still in flight.
C18_SiblingsCancelled ==
    (pc = "raised" /\ \E i \in FetchIds : FetchDone(i) /\ FetchFailed(i))
        => \A j \in FetchIds : fetch[j].status = "done"

RequestDay == IF request.date = <<>> THEN clock ELSE request.date[1]

\* C19: the phase-1 fetches are exactly a log summary and metrics of the
\* request's system for the request's day (the clock's day when the
\* request has no date) and for the day before it.
C19_TwoDaysOneSystem ==
    fetch # <<>>
        => /\ Len(fetch) = 4
           /\ {fetch[i].call : i \in DOMAIN fetch} =
                 {Call(op, request.system, d) :
                     op \in {"get_log_summary", "get_metrics"},
                     d \in {RequestDay, RequestDay - 1}}

C19_Witness ==
    /\ request.date = <<3>> /\ clock = 9
    /\ request.system = "pnl_system"
    /\ fetch # <<>>
    /\ fetch[4].status = "waiting"
    /\ fetch[4].call = Call("get_metrics", "pnl_system", 2)

\* C20: whatever the order in which the four fetches finished, the
\* detection prompt holds today's log summary, yesterday's log summary,
\* today's metrics and yesterday's metrics, each in its own slot.
C20_PromptSlotsByPosition ==
    snapshots # <<>>
        => LET p == llmCalls[1].prompt
               sys == request.system
           IN /\ p.log_today = Snapshot(Call("get_log_summary", sys, RequestDay))
              /\ p.log_yesterday = Snapshot(Call("get_log_summary", sys, RequestDay - 1))
              /\ p.metrics_today = Snapshot(Call("get_metrics", sys, RequestDay))
              /\ p.metrics_yesterday = Snapshot(Call("get_metrics", sys, RequestDay - 1))

C20_Witness ==
    /\ snapshots # <<>>
    /\ doneOrder = <<4, 2, 3, 1>>
    /\ llmCalls[1].prompt.log_today.of.op = "get_log_summary"

Returned(value) == [result |-> <<value>>, escaped |-> <<>>]

Raised(kind) == [result |-> <<>>, escaped |-> <<Raise(kind)>>]

\* What execute makes of a request run on its own, from the request and
\* the collaborators' responses to it: the outcomes of its fetches, the
\* model's answers and the outcomes of its directive fetches.
RunAlone(req, fetches, modelAnswers, directives) ==
    LET found == _parse_detection_response(modelAnswers[1].out)
        plan == _create_diagnostic_plan(found, req.system)
        data == [k \in DOMAIN plan |->
                    IF directives[k].outcome = "ok" THEN Evidence(plan[k])
                    ELSE Placeholder(plan[k])]
        diag == _parse_diagnosis_response(modelAnswers[2].out, data)
    IN IF req.mode = CUSTOM_QUERY
       THEN IF req.specific_query = <<>> THEN Raised("InvalidRequest")
            ELSE IF modelAnswers[1].error # "none" THEN Raised(modelAnswers[1].error)
            ELSE Returned([answer |-> modelAnswers[1].out.text])
       ELSE IF \E i \in DOMAIN fetches : fetches[i].outcome = "fail"
            THEN Raised("EvidenceUnavailable")
       ELSE IF modelAnswers[1].error # "none" THEN Raised(modelAnswers[1].error)
       ELSE IF req.mode = ISSUE_DETECTION \/ ~found.has_issues THEN Returned(found)
       ELSE IF modelAnswers[2].error # "none" THEN Raised(modelAnswers[2].error)
       ELSE Returned([k \in DOMAIN found \cup DOMAIN diag |->
                         IF k \in DOMAIN diag THEN diag[k] ELSE found[k]])

AsAlone(l) ==
    l.pc \in {"returned", "raised"}
        => [result |-> l.result, escaped |-> l.escaped]
              = RunAlone(l.request, l.fetch, l.answers, l.dtask)

\* C14: with two requests in flight on one orchestrator, under every
\* interleaving of their steps, context_memory is never written and each
\* request ends as it would have ended alone with the same responses from
\* the data layer and the model.
C14_RequestsIndependent ==
    /\ context_memory = <<>>
    /\ AsAlone(Locals)
    /\ parked # <<>> => AsAlone(parked[1])

C14_Witness ==
    /\ parked # <<>>
    /\ pc = "returned" /\ issues # <<>> /\ issues[1].has_issues
    /\ parked[1].pc = "await_diagnosis_llm"
    /\ parked[1].issues # issues
    /\ "root_cause" \in DOMAIN result[1]

====
